---- MODULE Spec2Model ----
(***************************************************************************)
(* Layout engine of the grand staff: beam grouping, beam line, accidental  *)
(* tracking, note/stem geometry and the horizontal cursor, modelled from   *)
(* SvgGrandStaff.tsx and SvgChord.tsx.                                     *)
(*                                                                         *)
(* All lengths are pixels.  The heights drawn in Init are multiples of 240 *)
(* so that every length the code computes (staffLineHeight = height/20,    *)
(* note head width = 7/12 staffLineHeight, an EIGHTH's width = height/8,   *)
(* BEAM_SLOPE * x) is an integer; arithmetic is exact, float rounding is   *)
(* not modelled.  An absent value (undefined) is the empty sequence <<>>,  *)
(* a present value v is <<v>>.                                             *)
(***************************************************************************)
EXTENDS Integers, Sequences, FiniteSets, TLC

VARIABLES
    pc,                 \* position of the running function
    height,             \* GrandStaff's height prop
    clef,               \* clef of the current createClefNotes / SvgChord call
    measure,            \* input of groupBeamGroups / createClefNotes (measureClef)
    beamGroups,         \* result of groupBeamGroups(measure)
    originalKeyLetters, \* GrandStaff: key signature letter -> accidental
    accidentals,        \* createClefNotes: accidentals in force
    chord,              \* props and rendered elements of the latest SvgChord
    musicKey,           \* GrandStaff's musicKey prop: the note labels in the key
    currentX,           \* createClefNotes: the x cursor
    gi,                 \* createClefNotes: index of the current beam group
    ci,                 \* createClefNotes: index of the next chord of the group
    beamLine,           \* createClefNotes: getBeamLine's result for the group
    beamStartX,         \* createClefNotes: x of the group's first chord
    beamStopX,          \* createClefNotes: x of the group's latest chord
    beam,               \* the beam element of the latest finished group, if any
    placed,             \* the rendered chords of the current group, in order
    before,             \* history: accidentals in force before the latest chord
    trebleX,            \* GrandStaff: treble cursor
    bassX,              \* GrandStaff: bass cursor
    barLines,           \* GrandStaff: x of the bar lines pushed so far
    measureXs,          \* history: per clef, the x of the chords placed in this measure
    altered             \* history: an earlier clef pass ended off the key signature

chordVars == <<pc, height, clef, measure, beamGroups, originalKeyLetters, accidentals, chord>>
clefVars == <<musicKey, currentX, gi, ci, beamLine, beamStartX, beamStopX, beam, placed, before>>
staffVars == <<trebleX, bassX, barLines, measureXs, altered>>
vars == <<chordVars, clefVars, staffVars>>

-----------------------------------------------------------------------------
(* Bounds of the model *)

\* Largest number of notes in one chord.
MaxNotes == 2

\* Largest number of chords in a measure given to groupBeamGroups alone.
MaxGroupMeasure == 5

\* Largest number of chords in a measure given to createClefNotes alone.
MaxClefMeasure == 4

\* Largest number of chords per clef in a measure of GrandStaff's music.
MaxStaffMeasure == 2

\* Largest number of measures of GrandStaff's music.
MaxMeasures == 2

-----------------------------------------------------------------------------
(* Basic types (datatypes/BasicTypes, datatypes/ComplexTypes) *)

Letters == {"C", "D", "E", "F", "G", "A", "B"}
Accidentals == {"FLAT", "NATURAL", "SHARP"}
Clefs == {"TREBLE", "BASS"}
None == "NONE"

\* RhythmicValue: a numeric duration class that is also the width multiplier;
\* kept here as the denominator of the fraction (WHOLE = 1/1, EIGHTH = 1/8).
RhythmicValue == [WHOLE |-> 1, HALF |-> 2, QUARTER |-> 4, EIGHTH |-> 8]

Abs(n) == IF n < 0 THEN -n ELSE n
Max(a, b) == IF a >= b THEN a ELSE b
Min(a, b) == IF a <= b THEN a ELSE b

\* A note is [letter, accidental, octave, rhythmicValue]; getLabel() is the
\* (letter, accidental) pair and getOctave() the octave field.
Semitone(letter) ==
    CASE letter = "C" -> 0 [] letter = "D" -> 2 [] letter = "E" -> 4
      [] letter = "F" -> 5 [] letter = "G" -> 7 [] letter = "A" -> 9
      [] letter = "B" -> 11

AccidentalShift(accidental) ==
    CASE accidental = "FLAT" -> -1 [] accidental = "NATURAL" -> 0 [] accidental = "SHARP" -> 1

\* Note.pitch: the absolute semitone number (C4 = 60); the octave is the one the
\* pitch lies in, so that Cb of octave 3 sounds as B3 = 59 and B# of octave 4 as C4 = 60.
Pitch(note) ==
    12 * (note.octave + 1) + ((Semitone(note.letter) + AccidentalShift(note.accidental)) % 12)

\* NoteLabel.getDisplayedAccidental(accidentals): the accidental to print, if any.
getDisplayedAccidental(note, accs) ==
    IF accs[note.letter] # note.accidental THEN note.accidental ELSE None

-----------------------------------------------------------------------------
(* Sizes (GrandStaff) *)

STAFF_RATIO_PCT == 20
staffLineHeight(h) == (STAFF_RATIO_PCT * h) \div 400
BASE_NOTE_GAP_RATIO == (5 * STAFF_RATIO_PCT) \div 100

-----------------------------------------------------------------------------
(* Beam functions (SvgGrandStaff.tsx) *)

RECURSIVE Factorial(_)
Factorial(n) == IF n <= 1 THEN 1 ELSE n * Factorial(n - 1)

\* Averages of pitches are fractions; they are kept exactly, as integers
\* multiplied by PitchScale, a common multiple of every possible chord size.
PitchScale == Factorial(MaxNotes)

RECURSIVE Sum(_)
Sum(nums) == IF nums = <<>> THEN 0 ELSE nums[1] + Sum(Tail(nums))

\* NumberUtils.average, times PitchScale.
average(nums) == (Sum(nums) * PitchScale) \div Len(nums)

getAveragePitch(labeledChord) ==
    average([i \in 1..Len(labeledChord) |-> Pitch(labeledChord[i])])

isEighth(labeledChord) == labeledChord[1].rhythmicValue = RhythmicValue.EIGHTH

RECURSIVE MaxOf(_)
MaxOf(nums) == IF Len(nums) = 1 THEN nums[1] ELSE Max(nums[1], MaxOf(Tail(nums)))

\* Variant of closeEnough: only the preceding chord is compared.
closeEnough_predecessorOnly(latestBeamGroup, labeledChord) ==
    Abs(getAveragePitch(latestBeamGroup[Len(latestBeamGroup)]) - getAveragePitch(labeledChord))
        <= 12 * PitchScale

\* Variant of closeEnough: a chord exactly an octave away is refused.
closeEnough_lessThanOctave(latestBeamGroup, labeledChord) ==
    LET currentChordPitch == getAveragePitch(labeledChord)
        pitchDistances == [i \in 1..Len(latestBeamGroup) |->
                              Abs(getAveragePitch(latestBeamGroup[i]) - currentChordPitch)]
    IN  MaxOf(pitchDistances) < 12 * PitchScale

\* Is the chord within an octave of every chord of the latest beam group?
closeEnough(latestBeamGroup, labeledChord) ==
    LET currentChordPitch == getAveragePitch(labeledChord)
        pitchDistances == [i \in 1..Len(latestBeamGroup) |->
                              Abs(getAveragePitch(latestBeamGroup[i]) - currentChordPitch)]
    IN  MaxOf(pitchDistances) <= 12 * PitchScale

\* Variant of startsNewGroup: the group is full only above 4 chords.
startsNewGroup_capOffByOne(latestBeamGroup, labeledChord) ==
    Len(latestBeamGroup) > 4 \/ ~isEighth(labeledChord) \/ ~isEighth(latestBeamGroup[1])

\* The latest beam group is full, or this chord or the group is not of eighths.
startsNewGroup(latestBeamGroup, labeledChord) ==
    Len(latestBeamGroup) >= 4 \/ ~isEighth(labeledChord) \/ ~isEighth(latestBeamGroup[1])

\* One iteration of groupBeamGroups' loop.
groupChord(groups, labeledChord) ==
    IF Len(groups) = 0 THEN <<(<<labeledChord>>)>>
    ELSE LET latestBeamGroup == groups[Len(groups)]
         IN  IF Len(latestBeamGroup) = 0
                 THEN [groups EXCEPT ![Len(groups)] = <<labeledChord>>]
             ELSE IF startsNewGroup(latestBeamGroup, labeledChord)
                 THEN Append(groups, <<labeledChord>>)
             ELSE IF closeEnough(latestBeamGroup, labeledChord)
                 THEN [groups EXCEPT ![Len(groups)] = Append(latestBeamGroup, labeledChord)]
             ELSE Append(groups, <<labeledChord>>)

RECURSIVE groupFrom(_, _)
groupFrom(groups, rest) ==
    IF rest = <<>> THEN groups ELSE groupFrom(groupChord(groups, rest[1]), Tail(rest))

groupBeamGroups(chords) == groupFrom(<<>>, chords)

-----------------------------------------------------------------------------
(* SvgChord.tsx *)

TREBLE_CLEF == <<"C", "D", "E", "F", "G", "A", "B">>
indexOf(seq, e) == (CHOOSE i \in 1..Len(seq) : seq[i] = e) - 1

NOTE_WIDTH_NUM == 7
NOTE_WIDTH_DEN == 12
noteHeadWidth(slh) == (NOTE_WIDTH_NUM * slh) \div NOTE_WIDTH_DEN

\* Variant of octaveAdjustment: no octave borderline rule.
octaveAdjustment_none(note) == 0

\* "Octave borderline" notes: Cb is drawn one octave higher, B# one octave lower.
octaveAdjustment(note) ==
    IF note.letter = "C" /\ note.accidental = "FLAT" THEN 1
    ELSE IF note.letter = "B" /\ note.accidental = "SHARP" THEN -1
    ELSE 0

\* The line/gap of the note: 0 is the ledger line below the treble staff.
basePosition(note, cl) ==
    LET baseClefOctave == IF cl = "BASS" THEN 2 ELSE 4
    IN  indexOf(TREBLE_CLEF, note.letter) + (IF cl = "BASS" THEN -2 ELSE 0)
        + (note.octave - baseClefOctave + octaveAdjustment(note)) * 7

getNoteY(note, cl, slh) == 5 * slh - (basePosition(note, cl) * slh) \div 2

\* If stemTo is set it decides the direction; otherwise the head's y does.
pointsDown(noteY, stemTo, slh) ==
    IF stemTo # <<>> THEN stemTo[1] > noteY ELSE noteY < 2 * slh

\* The stem line: x1 = x2 = x, from y1 (the head) to y2.
createNoteStem(noteX, noteY, stemTo, slh) ==
    LET down == pointsDown(noteY, stemTo, slh)
        stemX == IF down THEN noteX - noteHeadWidth(slh) ELSE noteX + noteHeadWidth(slh)
        stemY2 == IF stemTo # <<>> THEN stemTo[1]
                  ELSE IF down THEN noteY + 3 * slh ELSE noteY - 3 * slh
    IN  [x |-> stemX, y1 |-> noteY, y2 |-> stemY2]

\* The elements of one note of the chord: head, stem (if any), accidental (if any).
noteElements(note, x, cl, slh, stemTo, accs) ==
    LET y == getNoteY(note, cl, slh)
    IN  [head |-> [cx |-> x, cy |-> y],
         stem |-> IF note.rhythmicValue # RhythmicValue.WHOLE
                  THEN <<createNoteStem(x, y, stemTo, slh)>> ELSE <<>>,
         accidental |-> getDisplayedAccidental(note, accs)]

SvgChord(x, slh, labeledNoteGroup, cl, stemTo, accs) ==
    [i \in 1..Len(labeledNoteGroup) |->
        noteElements(labeledNoteGroup[i], x, cl, slh, stemTo, accs)]

\* The props of a chord not yet rendered, and the chord once rendered.
ChordProps(x, labeledNoteGroup, stemTo, accs) ==
    [x |-> x, notes |-> labeledNoteGroup, stemTo |-> stemTo, accidentals |-> accs,
     elements |-> <<>>]

-----------------------------------------------------------------------------
(* Beam line (SvgGrandStaff.tsx) *)

BEAM_SLOPE_NUM == 1
BEAM_SLOPE_DEN == 5

\* NumberUtils.averageSlope: the mean of the differences of consecutive numbers,
\* positive when they rise; kept times (Len(nums) - 1), only its sign is used.
averageSlope(nums) == Sum([i \in 1..(Len(nums) - 1) |-> nums[i + 1] - nums[i]])

Sign(n) == IF n = 0 THEN 0 ELSE IF n > 0 THEN 1 ELSE -1

\* displayedSlope * x, for a displayedSlope of sign * BEAM_SLOPE.
slopeTimes(sign, x) == (sign * BEAM_SLOPE_NUM * x) \div BEAM_SLOPE_DEN

\* MusicUtils.getPositionByNote and MusicUtils.positionToY: the staff position of a
\* note and the y of a staff position.
getPositionByNote(note, cl) ==
    LET letterIndex == indexOf(<<"C", "D", "E", "F", "G", "A", "B">>, note.letter)
        octaveShift == IF note.letter = "C" /\ note.accidental = "FLAT" THEN 1
                       ELSE IF note.letter = "B" /\ note.accidental = "SHARP" THEN -1
                       ELSE 0
    IN  letterIndex + (IF cl = "BASS" THEN -2 ELSE 0)
        + (note.octave - (IF cl = "BASS" THEN 2 ELSE 4) + octaveShift) * 7

positionToY(position, slh) == 5 * slh - (position * slh) \div 2

RECURSIVE MinOf(_)
MinOf(nums) == IF Len(nums) = 1 THEN nums[1] ELSE Min(nums[1], MinOf(Tail(nums)))

middlePitch(cl) == IF cl = "TREBLE" THEN 71 ELSE 50

\* Variant of shouldBeAbove: a sum of exactly 0 also puts the beam above.
shouldBeAbove_nonPositive(averagePitches, cl) ==
    0 >= Sum([i \in 1..Len(averagePitches) |-> averagePitches[i] - middlePitch(cl) * PitchScale])

\* The beam goes above the notes when the pitches are below the middle line on average.
shouldBeAbove(averagePitches, cl) ==
    0 > Sum([i \in 1..Len(averagePitches) |-> averagePitches[i] - middlePitch(cl) * PitchScale])

\* Variant of adjustedChordY: the slope of the beam is not taken into account.
adjustedChordY_unadjusted(labeledChord, i, cl, above, sign, noteWidth, slh) ==
    LET chordYVals == [n \in 1..Len(labeledChord) |->
                          positionToY(getPositionByNote(labeledChord[n], cl), slh)]
    IN  IF above THEN MinOf(chordYVals) ELSE MaxOf(chordYVals)

\* The y of the chord's note closest to the beam, moved along the beam's slope to the
\* group's first column; i counts from 0.
adjustedChordY(labeledChord, i, cl, above, sign, noteWidth, slh) ==
    LET chordYVals == [n \in 1..Len(labeledChord) |->
                          positionToY(getPositionByNote(labeledChord[n], cl), slh)]
        closestYVal == IF above THEN MinOf(chordYVals) ELSE MaxOf(chordYVals)
    IN  closestYVal - slopeTimes(sign, i * noteWidth)

\* The beam line y = displayedSlope * x + firstY, displayedSlope = slope * BEAM_SLOPE;
\* <<>> when the group has fewer than 2 chords.
getBeamLine(beamGroup, cl, startingX, noteWidth, slh) ==
    IF Len(beamGroup) <= 1 THEN <<>>
    ELSE LET averagePitches == [i \in 1..Len(beamGroup) |-> getAveragePitch(beamGroup[i])]
             slope == Sign(averageSlope(averagePitches))
             above == shouldBeAbove(averagePitches, cl)
             adjusted == [i \in 1..Len(beamGroup) |->
                             adjustedChordY(beamGroup[i], i - 1, cl, above, slope, noteWidth, slh)]
             closestNoteY == IF above THEN MinOf(adjusted) ELSE MaxOf(adjusted)
             firstY == closestNoteY - slopeTimes(slope, startingX)
                       + (IF above THEN -2 ELSE 2) * slh
         IN  << [isAbove |-> above, slope |-> slope, firstY |-> firstY] >>

getY(line, x) == slopeTimes(line.slope, x) + line.firstY

-----------------------------------------------------------------------------
(* SVG component utilities (SvgGrandStaff.tsx) *)

\* BASE_NOTE_GAP_RATIO * sizes.staffHeight * rhythmicValue
noteWidthOf(h, rhythmicValue) == (BASE_NOTE_GAP_RATIO * h) \div rhythmicValue

createSvgBeam(line, x1, x2) == [x1 |-> x1, x2 |-> x2, y1 |-> getY(line, x1), y2 |-> getY(line, x2)]

\* obj with obj[letter] set to accidental.
withLetter(obj, letter, accidental) ==
    [l \in (DOMAIN obj) \cup {letter} |-> IF l = letter THEN accidental ELSE obj[l]]

\* {...a, ...b}
spread(a, b) == [l \in (DOMAIN a) \cup (DOMAIN b) |-> IF l \in DOMAIN b THEN b[l] ELSE a[l]]

\* Variant of getDisplayedAccidentals: nothing is recorded.
getDisplayedAccidentals_none(noteGroup, accs) == <<>>

RECURSIVE displayedFrom(_, _, _)
displayedFrom(obj, noteGroup, accs) ==
    IF noteGroup = <<>> THEN obj
    ELSE LET note == noteGroup[1]
         IN  displayedFrom(IF accs[note.letter] # note.accidental
                           THEN withLetter(obj, note.letter, note.accidental) ELSE obj,
                           Tail(noteGroup), accs)

\* The letters of the chord whose accidental differs from the one in force.
getDisplayedAccidentals(noteGroup, accs) == displayedFrom(<<>>, noteGroup, accs)

\* Variant of keyAfterChord: accidentals aliases originalKeyLetters and is updated in place.
keyAfterChord_aliased(keyLetters, accs) == accs

\* createClefNotes works on a copy of originalKeyLetters and replaces the copy at
\* every update: the key's map itself is never written.
keyAfterChord(keyLetters, accs) == keyLetters

\* GrandStaff: the map of a letter to its accidental in the key.
keyLettersOf(labels) ==
    [l \in {labels[i].letter : i \in 1..Len(labels)} |->
        labels[CHOOSE i \in 1..Len(labels) :
                  labels[i].letter = l /\ \A j \in (i + 1)..Len(labels) : labels[j].letter # l].accidental]

-----------------------------------------------------------------------------
(* Inputs *)

Heights == {240}

\* Sequences over S of length lo..hi.
SeqsOf(S, lo, hi) == UNION {[1..n -> S] : n \in lo..hi}

\* Key.getNoteLabelsInKey of C major, G major and F major.
Label(l, a) == [letter |-> l, accidental |-> a]
CMajor == <<Label("C", "NATURAL"), Label("D", "NATURAL"), Label("E", "NATURAL"), Label("F", "NATURAL"),
            Label("G", "NATURAL"), Label("A", "NATURAL"), Label("B", "NATURAL")>>
GMajor == <<Label("G", "NATURAL"), Label("A", "NATURAL"), Label("B", "NATURAL"), Label("C", "NATURAL"),
            Label("D", "NATURAL"), Label("E", "NATURAL"), Label("F", "SHARP")>>
FMajor == <<Label("F", "NATURAL"), Label("G", "NATURAL"), Label("A", "NATURAL"), Label("B", "FLAT"),
            Label("C", "NATURAL"), Label("D", "NATURAL"), Label("E", "NATURAL")>>
KeyLabels == {keyLettersOf(CMajor), keyLettersOf(GMajor), keyLettersOf(FMajor)}

NoteOf(l, a, o, rv) == [letter |-> l, accidental |-> a, octave |-> o, rhythmicValue |-> rv]

\* Inputs of SvgChord: notes around the middle line and the octave border.
ChordLetters == {"B", "C", "D"}
ChordOctaves == {3, 4}
ChordRhythms == {RhythmicValue.WHOLE, RhythmicValue.QUARTER}
ChordInputs ==
    UNION { SeqsOf({NoteOf(l, a, o, rv) : l \in ChordLetters, a \in Accidentals, o \in ChordOctaves},
                   1, MaxNotes) : rv \in ChordRhythms }
StemTos == {<<>>, <<30>>}

\* Inputs of groupBeamGroups: EIGHTH chords of average pitch 60, 61, 72, 80 and
\* 66.5, and a QUARTER.
Eighth(l, a, o) == NoteOf(l, a, o, RhythmicValue.EIGHTH)
E60 == <<Eighth("C", "NATURAL", 4)>>
E61 == <<Eighth("C", "SHARP", 4)>>
E72 == <<Eighth("C", "NATURAL", 5)>>
E80 == <<Eighth("G", "SHARP", 5)>>
E66h == <<Eighth("C", "NATURAL", 4), Eighth("C", "SHARP", 5)>>
Q60 == <<NoteOf("C", "NATURAL", 4, RhythmicValue.QUARTER)>>
GroupChords == {E60, E61, E72, E80, E66h, Q60}

\* Inputs of createClefNotes alone: EIGHTH chords on both sides of the treble middle
\* line (pitch 71), one of them with two notes of the letter F, and a QUARTER.
F4s == <<Eighth("F", "SHARP", 4)>>
F4n == <<Eighth("F", "NATURAL", 4)>>
F5n == <<Eighth("F", "NATURAL", 5)>>
F4nF5s == <<Eighth("F", "NATURAL", 4), Eighth("F", "SHARP", 5)>>
QF4s == <<NoteOf("F", "SHARP", 4, RhythmicValue.QUARTER)>>
ClefChords == {F4s, F4n, F5n, F4nF5s, QF4s}
ClefKeys == {CMajor, GMajor}
ClefStartXs == {40, 120}

\* Inputs of GrandStaff: chords of two widths that alter or restore the letter F.
QF4n == <<NoteOf("F", "NATURAL", 4, RhythmicValue.QUARTER)>>
StaffChords == {QF4s, QF4n, F4n}
StaffMeasures == SeqsOf(StaffChords, 0, MaxStaffMeasure)
StaffKeys == {CMajor, GMajor}

\* No chord has been placed in the measure yet.
NoChordXs == [cl \in Clefs |-> {}]

\* The variables of createClefNotes and GrandStaff while neither runs.
IdleClef ==
    /\ musicKey = <<>>
    /\ currentX = 0
    /\ gi = 0
    /\ ci = 0
    /\ beamLine = <<>>
    /\ beamStartX = 0
    /\ beamStopX = 0
    /\ beam = <<>>
    /\ placed = <<>>
    /\ before = <<>>

IdleStaff ==
    /\ trebleX = 0
    /\ bassX = 0
    /\ barLines = <<>>
    /\ measureXs = NoChordXs
    /\ altered = FALSE

-----------------------------------------------------------------------------
(* SpecChord: SvgChord applied to any chord of ChordInputs *)

InitChord ==
    /\ pc = "props"
    /\ height \in Heights
    /\ clef \in Clefs
    /\ measure = <<>>
    /\ beamGroups = <<>>
    /\ originalKeyLetters \in KeyLabels
    /\ accidentals = originalKeyLetters
    /\ \E notes \in ChordInputs, st \in StemTos :
          chord = ChordProps(40, notes, st, originalKeyLetters)
    /\ IdleClef
    /\ IdleStaff

RenderChord ==
    /\ pc = "props"
    /\ chord' = [chord EXCEPT !.elements =
                    SvgChord(chord.x, staffLineHeight(height), chord.notes, clef,
                             chord.stemTo, chord.accidentals)]
    /\ pc' = "rendered"
    /\ UNCHANGED <<height, clef, measure, beamGroups, originalKeyLetters, accidentals>>
    /\ UNCHANGED <<clefVars, staffVars>>

NextChord == RenderChord

SpecChord == InitChord /\ [][NextChord]_vars

-----------------------------------------------------------------------------
(* SpecGroup: groupBeamGroups applied to any measure over GroupChords *)

InitGroup ==
    /\ pc = "measure"
    /\ height \in Heights
    /\ clef = "TREBLE"
    /\ measure \in SeqsOf(GroupChords, 0, MaxGroupMeasure)
    /\ beamGroups = <<>>
    /\ originalKeyLetters = [l \in Letters |-> "NATURAL"]
    /\ accidentals = originalKeyLetters
    /\ chord = ChordProps(0, <<>>, <<>>, originalKeyLetters)
    /\ IdleClef
    /\ IdleStaff

GroupMeasure ==
    /\ pc = "measure"
    /\ beamGroups' = groupBeamGroups(measure)
    /\ pc' = "grouped"
    /\ UNCHANGED <<height, clef, measure, originalKeyLetters, accidentals, chord>>
    /\ UNCHANGED <<clefVars, staffVars>>

NextGroup == GroupMeasure

SpecGroup == InitGroup /\ [][NextGroup]_vars

-----------------------------------------------------------------------------
(* createClefNotes, one step per loop iteration *)

NoChord == ChordProps(0, <<>>, <<>>, <<>>)

\* Lines 184-186: the accidentals are reset to the key's, the measure is grouped.
EnterClefNotes ==
    /\ pc = "clefNotes"
    /\ accidentals' = originalKeyLetters
    /\ beamGroups' = groupBeamGroups(measure)
    /\ gi' = 1
    /\ pc' = "group"
    /\ UNCHANGED <<height, clef, measure, originalKeyLetters, chord, musicKey, currentX, ci,
                   beamLine, beamStartX, beamStopX, beam, placed, before, staffVars>>

\* Lines 187-191: the beam data of the next group.
BeginGroup ==
    /\ pc = "group"
    /\ gi <= Len(beamGroups)
    /\ LET beamGroup == beamGroups[gi]
           beamNoteWidth == noteWidthOf(height, beamGroup[1][1].rhythmicValue)
       IN  beamLine' = getBeamLine(beamGroup, clef, currentX, beamNoteWidth, staffLineHeight(height))
    /\ beamStartX' = currentX
    /\ beamStopX' = currentX
    /\ ci' = 1
    /\ placed' = <<>>
    /\ pc' = "chords"
    /\ UNCHANGED <<height, clef, measure, beamGroups, originalKeyLetters, accidentals, chord,
                   musicKey, currentX, gi, beam, before, staffVars>>

\* Lines 194-203: the next chord of the group and its accidentals.
PlaceChord ==
    /\ pc = "chords"
    /\ ci <= Len(beamGroups[gi])
    /\ LET noteGroup == beamGroups[gi][ci]
           stemTo == IF beamLine # <<>> THEN <<getY(beamLine[1], currentX)>> ELSE <<>>
           props == ChordProps(currentX, noteGroup, stemTo, accidentals)
           rendered == [props EXCEPT !.elements =
                           SvgChord(currentX, staffLineHeight(height), noteGroup, clef,
                                    stemTo, accidentals)]
           chordAccidentals == getDisplayedAccidentals(noteGroup, accidentals)
       IN  /\ beamStopX' = currentX
           /\ chord' = rendered
           /\ placed' = Append(placed, rendered)
           /\ currentX' = currentX + noteWidthOf(height, noteGroup[1].rhythmicValue)
           /\ before' = accidentals
           /\ accidentals' = spread(accidentals, chordAccidentals)
           /\ originalKeyLetters' = keyAfterChord(originalKeyLetters, accidentals')
           /\ measureXs' = [measureXs EXCEPT ![clef] = @ \cup {currentX}]
    /\ ci' = ci + 1
    /\ UNCHANGED <<pc, height, clef, measure, beamGroups, musicKey, gi, beamLine, beamStartX,
                   beam, trebleX, bassX, barLines, altered>>

\* Lines 205-211: the beam of the group, if it has one.
EndGroup ==
    /\ pc = "chords"
    /\ ci > Len(beamGroups[gi])
    /\ IF beamLine # <<>>
       THEN LET w == noteHeadWidth(staffLineHeight(height))
                shift == IF beamLine[1].isAbove THEN w ELSE -w
            IN  /\ beamStartX' = beamStartX + shift
                /\ beamStopX' = beamStopX + shift
                /\ beam' = <<createSvgBeam(beamLine[1], beamStartX + shift, beamStopX + shift)>>
       ELSE /\ beam' = <<>>
            /\ UNCHANGED <<beamStartX, beamStopX>>
    /\ gi' = gi + 1
    /\ pc' = "group"
    /\ UNCHANGED <<height, clef, measure, beamGroups, originalKeyLetters, accidentals, chord,
                   musicKey, currentX, ci, beamLine, placed, before, staffVars>>

\* Line 214: currentX is returned, the locals are gone.
ReturnClefNotes ==
    /\ pc = "group"
    /\ gi > Len(beamGroups)
    /\ pc' = "returned"
    /\ altered' = (altered \/ accidentals # originalKeyLetters)
    /\ measure' = <<>>
    /\ beamGroups' = <<>>
    /\ accidentals' = <<>>
    /\ before' = <<>>
    /\ chord' = NoChord
    /\ gi' = 0
    /\ ci' = 0
    /\ beamLine' = <<>>
    /\ beamStartX' = 0
    /\ beamStopX' = 0
    /\ beam' = <<>>
    /\ placed' = <<>>
    /\ UNCHANGED <<height, clef, originalKeyLetters, musicKey, currentX, trebleX, bassX, barLines,
                   measureXs>>

-----------------------------------------------------------------------------
(* SpecClef: createClefNotes applied to any measure over ClefChords *)

InitClef ==
    /\ pc = "clefNotes"
    /\ height \in Heights
    /\ clef \in Clefs
    /\ musicKey \in ClefKeys
    /\ originalKeyLetters = keyLettersOf(musicKey)
    /\ measure \in SeqsOf(ClefChords, 0, MaxClefMeasure)
    /\ currentX \in ClefStartXs
    /\ beamGroups = <<>>
    /\ accidentals = <<>>
    /\ chord = NoChord
    /\ gi = 0
    /\ ci = 0
    /\ beamLine = <<>>
    /\ beamStartX = 0
    /\ beamStopX = 0
    /\ beam = <<>>
    /\ placed = <<>>
    /\ before = <<>>
    /\ IdleStaff

NextClef ==
    \/ EnterClefNotes
    \/ BeginGroup
    \/ PlaceChord
    \/ EndGroup
    \/ ReturnClefNotes

SpecClef == InitClef /\ [][NextClef]_vars

-----------------------------------------------------------------------------
(* Spec: GrandStaff, measure by measure *)

Init ==
    /\ pc = "measure"
    /\ height \in Heights
    /\ clef = "TREBLE"
    /\ musicKey \in StaffKeys
    /\ originalKeyLetters = keyLettersOf(musicKey)
    /\ measure = <<>>
    /\ currentX = 0
    /\ beamGroups = <<>>
    /\ accidentals = <<>>
    /\ chord = NoChord
    /\ gi = 0
    /\ ci = 0
    /\ beamLine = <<>>
    /\ beamStartX = 0
    /\ beamStopX = 0
    /\ beam = <<>>
    /\ placed = <<>>
    /\ before = <<>>
    /\ trebleX = 40
    /\ bassX = 40
    /\ barLines = <<>>
    /\ measureXs = NoChordXs
    /\ altered = FALSE

\* Variant of barXOf: the bar line follows the treble cursor alone.
barXOf_trebleOnly(trebleCursor, bassCursor) == trebleCursor

\* Line 269: the x of the measure's bar line.
barXOf(trebleCursor, bassCursor) == Max(trebleCursor, bassCursor)

\* Line 265: the next measure's treble clef goes to createClefNotes.
StartTreble ==
    /\ pc = "measure"
    /\ Len(barLines) < MaxMeasures
    /\ \E trebleClef \in StaffMeasures : measure' = trebleClef
    /\ clef' = "TREBLE"
    /\ currentX' = trebleX
    /\ measureXs' = NoChordXs
    /\ pc' = "clefNotes"
    /\ UNCHANGED <<height, beamGroups, originalKeyLetters, accidentals, chord, musicKey, gi, ci,
                   beamLine, beamStartX, beamStopX, beam, placed, before, trebleX, bassX,
                   barLines, altered>>

\* Lines 265-266: trebleX is set, the measure's bass clef goes to createClefNotes.
StartBass ==
    /\ pc = "returned"
    /\ clef = "TREBLE"
    /\ trebleX' = currentX
    /\ \E bassClef \in StaffMeasures : measure' = bassClef
    /\ clef' = "BASS"
    /\ currentX' = bassX
    /\ pc' = "clefNotes"
    /\ UNCHANGED <<height, beamGroups, originalKeyLetters, accidentals, chord, musicKey, gi, ci,
                   beamLine, beamStartX, beamStopX, beam, placed, before, bassX, barLines,
                   measureXs, altered>>

\* Lines 266-279: bassX is set, the bar line is pushed and both cursors move past it.
BarLine ==
    /\ pc = "returned"
    /\ clef = "BASS"
    /\ LET barX == barXOf(trebleX, currentX)
       IN  /\ barLines' = Append(barLines, barX)
           /\ trebleX' = barX + 50
           /\ bassX' = barX + 50
    /\ pc' = "measure"
    /\ UNCHANGED <<height, clef, measure, beamGroups, originalKeyLetters, accidentals, chord,
                   musicKey, currentX, gi, ci, beamLine, beamStartX, beamStopX, beam, placed,
                   before, measureXs, altered>>

Next ==
    \/ StartTreble
    \/ EnterClefNotes
    \/ BeginGroup
    \/ PlaceChord
    \/ EndGroup
    \/ ReturnClefNotes
    \/ StartBass
    \/ BarLine

Spec == Init /\ [][Next]_vars

-----------------------------------------------------------------------------
(* Claims on SvgChord (SpecChord) *)

Rendered == pc = "rendered" /\ chord.elements # <<>>

\* The staff position a head's y stands for: y = 5*slh - position * slh/2.
positionOfY(y, slh) == ((5 * slh - y) * 2) \div slh

HeadPosition(i) == positionOfY(chord.elements[i].head.cy, staffLineHeight(height))

IsNote(i, l, a, o) ==
    /\ chord.notes[i].letter = l
    /\ chord.notes[i].accidental = a
    /\ chord.notes[i].octave = o

\* C7 (as stated): in either clef the staff position of (C, FLAT, octave 4) is that of
\* (B, NATURAL, octave 3) plus 1, and the staff position of (B, SHARP, octave 3) is
\* that of (C, NATURAL, octave 4) minus 1.
C7_OctaveBorderAsStated ==
    Rendered =>
        \A i, j \in 1..Len(chord.notes) :
            /\ (IsNote(i, "C", "FLAT", 4) /\ IsNote(j, "B", "NATURAL", 3))
                    => HeadPosition(i) = HeadPosition(j) + 1
            /\ (IsNote(i, "B", "SHARP", 3) /\ IsNote(j, "C", "NATURAL", 4))
                    => HeadPosition(i) = HeadPosition(j) - 1

\* C7 (amended): in either clef and for every octave o given to getNoteY, the staff
\* position of (C, FLAT, o) is that of (B, NATURAL, o) plus 1, and the staff position
\* of (B, SHARP, o) is that of (C, NATURAL, o) minus 1: the octave is the same on both
\* sides, the octave adjustment alone moves the note across the octave border.
C7_OctaveBorderSameOctave ==
    Rendered =>
        \A i, j \in 1..Len(chord.notes) : \A o \in ChordOctaves :
            /\ (IsNote(i, "C", "FLAT", o) /\ IsNote(j, "B", "NATURAL", o))
                    => HeadPosition(i) = HeadPosition(j) + 1
            /\ (IsNote(i, "B", "SHARP", o) /\ IsNote(j, "C", "NATURAL", o))
                    => HeadPosition(i) = HeadPosition(j) - 1

C7_Witness ==
    /\ Rendered
    /\ clef = "BASS"
    /\ Len(chord.notes) = 2
    /\ IsNote(1, "B", "SHARP", 4)
    /\ IsNote(2, "C", "NATURAL", 4)
    /\ HeadPosition(1) = HeadPosition(2) - 1

\* C8: without stemTo a WHOLE note has no stem and every other note has one of 3
\* staff-line-heights: downward and on the head's left side when the head is on the
\* middle staff line (y = 2 * staffLineHeight) or above it, upward and on the right
\* side when the head is below the middle line.
C8_StemDirection ==
    (Rendered /\ chord.stemTo = <<>>) =>
        \A i \in 1..Len(chord.notes) :
            LET e == chord.elements[i]
                slh == staffLineHeight(height)
            IN  IF chord.notes[i].rhythmicValue = RhythmicValue.WHOLE
                THEN e.stem = <<>>
                ELSE /\ e.stem # <<>>
                     /\ e.stem[1].y1 = e.head.cy
                     /\ IF e.head.cy <= 2 * slh
                        THEN e.stem[1].x < e.head.cx /\ e.stem[1].y2 = e.head.cy + 3 * slh
                        ELSE e.stem[1].x > e.head.cx /\ e.stem[1].y2 = e.head.cy - 3 * slh

-----------------------------------------------------------------------------
(* Claims on groupBeamGroups (SpecGroup) *)

Grouped == pc = "grouped"

RECURSIVE Concat(_)
Concat(seqs) == IF seqs = <<>> THEN <<>> ELSE seqs[1] \o Concat(Tail(seqs))

PitchSum(c) == Sum([i \in 1..Len(c) |-> Pitch(c[i])])

\* The average pitches of chords a and b differ by more than d semitones
\* (sum(a)/|a| - sum(b)/|b|, cross-multiplied).
FartherThan(a, b, d) ==
    Abs(PitchSum(a) * Len(b) - PitchSum(b) * Len(a)) > d * Len(a) * Len(b)

AllEighth(group) ==
    \A i \in 1..Len(group) : \A n \in 1..Len(group[i]) :
        group[i][n].rhythmicValue = RhythmicValue.EIGHTH

\* C1: every group returned by groupBeamGroups has between 1 and 4 chords, and a
\* group of more than one chord holds only EIGHTH chords.
C1_GroupSizeAndEighths ==
    Grouped =>
        \A g \in 1..Len(beamGroups) :
            /\ Len(beamGroups[g]) \in 1..4
            /\ Len(beamGroups[g]) > 1 => AllEighth(beamGroups[g])

C1_Witness ==
    /\ Grouped
    /\ measure = <<E60, E61, E60, E61, E60>>
    /\ beamGroups = << <<E60, E61, E60, E61>>, <<E60>> >>

CouldNotJoin(group, c) ==
    \/ Len(group) >= 4
    \/ c[1].rhythmicValue # RhythmicValue.EIGHTH
    \/ group[1][1].rhythmicValue # RhythmicValue.EIGHTH
    \/ \E i \in 1..Len(group) : FartherThan(group[i], c, 12)

\* C3: the returned groups, concatenated in order, are the measure; no group is
\* empty; every group after the first starts at a chord that could not join the
\* group before it.
C3_MaximalRuns ==
    Grouped =>
        /\ Concat(beamGroups) = measure
        /\ \A g \in 1..Len(beamGroups) : beamGroups[g] # <<>>
        /\ \A g \in 2..Len(beamGroups) : CouldNotJoin(beamGroups[g - 1], beamGroups[g][1])

\* 72 is exactly an octave above 60 and joins; the two-note chord of average 66.5 is
\* 13.5 below 80 and starts a group.
C3_Witness ==
    /\ Grouped
    /\ measure = <<E60, E72, E80, E66h, Q60>>
    /\ beamGroups = << <<E60, E72>>, <<E80>>, <<E66h>>, <<Q60>> >>

-----------------------------------------------------------------------------
(* Claims on createClefNotes (SpecClef) *)

\* The latest chord of the current group has been placed.
ChordPlaced == pc = "chords" /\ placed # <<>>

\* Every chord of the current group has been placed.
GroupPlaced == ChordPlaced /\ Len(placed) = Len(beamGroups[gi])

DisplayedOf(c) == [i \in 1..Len(c.notes) |-> c.elements[i].accidental]

\* C4: within one measure of one clef the accidentals in force start as the key
\* signature's, and a note's accidental is displayed exactly when it differs from the
\* accidental in force for its letter before the note's chord; with F# in the key,
\* [F#4, F4, F4] displays [none, NATURAL, none].
C4_DisplayedAccidentals ==
    ChordPlaced =>
        /\ \A i \in 1..Len(chord.notes) :
              chord.elements[i].accidental =
                  IF chord.notes[i].accidental # before[chord.notes[i].letter]
                  THEN chord.notes[i].accidental ELSE None
        /\ chord.accidentals = before
        /\ (gi = 1 /\ Len(placed) = 1) => before = keyLettersOf(musicKey)
        /\ (musicKey = GMajor /\ measure = <<F4s, F4n, F4n>> /\ Len(placed) = 3)
              => [i \in 1..3 |-> DisplayedOf(placed[i])]
                     = << <<None>>, <<"NATURAL">>, <<None>> >>

C4_Witness ==
    /\ ChordPlaced
    /\ musicKey = GMajor
    /\ measure = <<F4s, F4n, F4n>>
    /\ Len(placed) = 3
    /\ DisplayedOf(placed[2]) = <<"NATURAL">>
    /\ DisplayedOf(chord) = <<None>>
    /\ before["F"] = "NATURAL"

\* The index of the last note of the chord with the letter of note i.
LastWithLetter(notes, i) ==
    CHOOSE j \in 1..Len(notes) :
        /\ notes[j].letter = notes[i].letter
        /\ \A k \in (j + 1)..Len(notes) : notes[k].letter # notes[i].letter

\* C5: after a chord has been processed, for every letter that occurs in the chord
\* the accidental in force is the accidental of the last note of that letter in the
\* chord's order.
C5_LastWriteWins ==
    ChordPlaced =>
        \A i \in 1..Len(chord.notes) :
            accidentals[chord.notes[i].letter]
                = chord.notes[LastWithLetter(chord.notes, i)].accidental

HeadYs(c) == [i \in 1..Len(c.elements) |-> c.elements[i].head.cy]

\* C9: for a beam group of 2 to 4 chords, chord i (from 0) stands at
\* x = startingX + i * noteWidth, and there the beam is at least 2 staff-line-heights
\* above the chord's highest head when isAbove, at least 2 staff-line-heights below
\* its lowest head otherwise; for at least one chord of the group it is exactly 2.
C9_BeamClearance ==
    (ChordPlaced /\ beamLine # <<>>) =>
        LET line == beamLine[1]
            slh == staffLineHeight(height)
            noteWidth == noteWidthOf(height, beamGroups[gi][1][1].rhythmicValue)
            Clearance(i) ==
                IF line.isAbove
                THEN MinOf(HeadYs(placed[i])) - getY(line, placed[i].x)
                ELSE getY(line, placed[i].x) - MaxOf(HeadYs(placed[i]))
        IN  /\ Len(beamGroups[gi]) \in 2..4
            /\ \A i \in 1..Len(placed) :
                  /\ placed[i].x = beamStartX + (i - 1) * noteWidth
                  /\ placed[i].stemTo = <<getY(line, placed[i].x)>>
                  /\ Clearance(i) >= 2 * slh
            /\ GroupPlaced => \E i \in 1..Len(placed) : Clearance(i) = 2 * slh

C9_Witness ==
    /\ GroupPlaced
    /\ beamLine # <<>>
    /\ Len(placed) = 4
    /\ beamLine[1].isAbove
    /\ beamLine[1].slope # 0
    /\ \E i \in 1..4 :
          MinOf(HeadYs(placed[i])) - getY(beamLine[1], placed[i].x) > 2 * staffLineHeight(height)

\* The sign of the average slope of the average pitches of the group's chords:
\* the mean of the consecutive differences is (last - first) / (n - 1).
PitchTrend(group) ==
    Sign(PitchSum(group[Len(group)]) * Len(group[1]) - PitchSum(group[1]) * Len(group[Len(group)]))

\* C10: the beam is horizontal when the average slope of the group's average pitches
\* is 0, rises on the page from the first chord to the last (y decreases as x grows)
\* when the pitches rise on average, and falls when they fall; its slope is 0 or of
\* magnitude BEAM_SLOPE.
C10_BeamDirection ==
    (GroupPlaced /\ beamLine # <<>>) =>
        LET line == beamLine[1]
            yFirst == getY(line, placed[1].x)
            yLast == getY(line, placed[Len(placed)].x)
            run == placed[Len(placed)].x - placed[1].x
            trend == PitchTrend(beamGroups[gi])
        IN  /\ trend = 0 => yLast = yFirst
            /\ trend > 0 => yLast < yFirst
            /\ trend < 0 => yLast > yFirst
            /\ Abs(yLast - yFirst) * BEAM_SLOPE_DEN \in {0, BEAM_SLOPE_NUM * run}

-----------------------------------------------------------------------------
(* Claims on GrandStaff (Spec) *)

\* The first chord of a clef's measure has just been placed.
FirstChordPlaced == ChordPlaced /\ gi = 1 /\ Len(placed) = 1

\* C6: in every measure and each clef the accidentals used for the first chord are
\* the key signature's, whatever earlier measures or the other clef introduced, and
\* laying out a measure leaves the key signature's map (originalKeyLetters) unchanged.
C6_KeyResetEveryMeasure ==
    /\ originalKeyLetters = keyLettersOf(musicKey)
    /\ FirstChordPlaced =>
          /\ chord.accidentals = keyLettersOf(musicKey)
          /\ before = keyLettersOf(musicKey)

\* The first bass chord of the second measure, after a clef pass that ended with an
\* accidental off the key signature.
C6_Witness ==
    /\ FirstChordPlaced
    /\ Len(barLines) = 1
    /\ clef = "BASS"
    /\ altered
    /\ chord.accidentals = keyLettersOf(musicKey)
    /\ originalKeyLetters = keyLettersOf(musicKey)

\* The next measure is about to start (or the music is over).
AtMeasureStart == pc = "measure"

\* After a measure: both cursors are 50 past its bar line, no chord of the measure is
\* right of the bar line, and bar lines never move left.
BarLinesAligned ==
    /\ AtMeasureStart => trebleX = bassX
    /\ (AtMeasureStart /\ barLines # <<>>) =>
          LET barX == barLines[Len(barLines)]
          IN  /\ trebleX = barX + 50
              /\ bassX = barX + 50
              /\ \A cl \in Clefs : \A x \in measureXs[cl] : x <= barX
    /\ \A i \in 1..(Len(barLines) - 1) : barLines[i] <= barLines[i + 1]

\* The step that ends a measure: trebleX holds the treble cursor, currentX the bass
\* cursor just returned; the bar line goes to the larger of the two.
BarLineAtMax ==
    (pc = "returned" /\ clef = "BASS" /\ pc' = "measure") =>
        /\ barLines' = Append(barLines, IF trebleX >= currentX THEN trebleX ELSE currentX)
        /\ trebleX' = bassX'

\* C11: after every measure, whatever the widths of its treble and bass chords, the
\* bar line is at max(trebleX, bassX) and both cursors are set to barX + 50, so the
\* cursors are equal at the start of every measure, no chord of the measure is right
\* of its bar line, and bar lines never move left from one measure to the next.
C11_BarLines == [](BarLinesAligned) /\ [][BarLineAtMax]_vars

\* Two measures done; in the second the treble clef holds two QUARTERs (x 210 and
\* 270, cursor 330) and the bass clef one EIGHTH (x 210, cursor 240).
C11_Witness ==
    /\ AtMeasureStart
    /\ barLines = <<160, 330>>
    /\ measureXs = [cl \in Clefs |-> IF cl = "TREBLE" THEN {210, 270} ELSE {210}]
    /\ trebleX = 380
    /\ bassX = 380

-----------------------------------------------------------------------------
(* Claims on beams and stems (SpecClef) *)

\* The group gi - 1 has just been finished: its chords are in placed, its beam, if
\* any, in beam.
GroupDone == pc = "group" /\ gi > 1 /\ placed # <<>>

RECURSIVE LenProduct(_)
LenProduct(group) == IF group = <<>> THEN 1 ELSE Len(group[1]) * LenProduct(Tail(group))

\* The sum over the chords of (average pitch - middle pitch), times the product of
\* the chords' sizes.
OffsetSum(group, cl) ==
    LET P == LenProduct(group)
        middle == IF cl = "TREBLE" THEN 71 ELSE 50
    IN  Sum([i \in 1..Len(group) |-> PitchSum(group[i]) * (P \div Len(group[i])) - middle * P])

====
